---- MODULE Spec2Model ----
(***************************************************************************)
(* Duplicate detection of pairtools: the chunked batch driver              *)
(* (lib/dedup.py: streaming_dedup, _dedup_stream, _dedup_chunk) and the    *)
(* online driver (lib/dedup.py: streaming_dedup_cython) around the online  *)
(* duplicate detector.                                                     *)
(*                                                                         *)
(* A pair record is a TLA+ record whose fields are the columns of a line;  *)
(* a column index of the code (c1ind, p1ind, ...) is the field's name.     *)
(* A data frame is a sequence of rows; the label of a row (pandas index)   *)
(* is kept next to the row where the code relies on it.                    *)
(***************************************************************************)
EXTENDS Integers, Sequences, FiniteSets, TLC

\* ---------------------------------------------------------------- bounds
\* longest input, in records
MaxLen == 3
\* positions are 0..MaxPos
MaxPos == 1
\* max_mismatch is 0..MaxR
MaxR == 1
\* chunksize is 1..MaxChunk
MaxChunk == 3
\* carryover is 0..MaxCarry
MaxCarry == 2
\* the most calls of fetchadd made on one table
MaxCalls == 4

\* lib/dedup.py:23 sets MAX_LEN = 10000, the number of mapped records the
\* online driver collects before a push; the model runs it scaled down.
MAX_LEN == 2

VARIABLES
    cfg,              \* the arguments of the driver (never change in a run)
    in_stream,        \* the input stream: the records it can deliver (recs)
                      \* and the most it delivers (len)
    input,            \* the records read from the stream so far, in order
    pc,               \* "run" in the driver's loop, "eof" when the reader is
                      \* exhausted, "done" after the driver returned, "error"
    files,            \* what has been written to each file handle
    df_prev_nodups,   \* _dedup_stream: the carryover frame
    prev_i,           \* _dedup_stream: number of carryover rows
    old_nodups,       \* _dedup_by_chunk: the carryover frame
    old_i,            \* _dedup_by_chunk: number of leading rows to cut off
    line_buffer,      \* streaming_dedup_cython: lines waiting for a result
    cols_buffer,      \* streaming_dedup_cython: their split columns
    arrays,           \* streaming_dedup_cython: the lists c1, c2, p1, p2, s1, s2
                      \* (one entry per record; id names the record in the model)
    chromDict,        \* streaming_dedup_cython: chromosome intern table
    strandDict,       \* streaming_dedup_cython: strand intern table
    dd,               \* the OnlineDuplicateDetector
    stat,             \* out_stat: the add_pair calls, in call order
    closed,           \* dedup_py: the handles close() was called on, in order
    call,             \* a call of _dedup_chunk / dedup_chunk on its own: the
                      \* frame it was given (df) and the frames returned
    fetched           \* calls of fetchadd on one table on their own: the key
                      \* given and the id returned, in call order

vars == <<cfg, in_stream, input, pc, files, df_prev_nodups, prev_i,
          old_nodups, old_i,
          line_buffer, cols_buffer, arrays, chromDict, strandDict, dd, stat,
          closed, call, fetched>>

batchVars == <<df_prev_nodups, prev_i, old_nodups, old_i>>
bufferVars == <<line_buffer, cols_buffer, arrays, chromDict, strandDict, dd>>
onlineVars == <<bufferVars, stat>>

\* ------------------------------------------------------------- arithmetic
Abs(x) == IF x < 0 THEN -x ELSE x
Max2(a, b) == IF a >= b THEN a ELSE b
MinOf(S) == CHOOSE m \in S : \A x \in S : m <= x

\* ---------------------------------------------------------------- records
ReadIds == <<"r1", "r2", "r3", "r4", "r5", "r6">>
IdxOf(id) == CHOOSE i \in 1..Len(ReadIds) : ReadIds[i] = id

colnames == <<"readID", "chrom1", "pos1", "chrom2", "pos2", "strand1", "strand2", "pair_type">>

\* the records over the given chromosome pairs, positions and strand pairs
Recs(chromPairs, P1, P2, strandPairs) ==
    { [readID |-> "r0", chrom1 |-> c[1], pos1 |-> a, chrom2 |-> c[2], pos2 |-> b,
       strand1 |-> s[1], strand2 |-> s[2], pair_type |-> "UU"] :
        c \in chromPairs, a \in P1, b \in P2, s \in strandPairs }

\* the k-th record read from the stream carries the k-th read id
Numbered(rec, k) == [rec EXCEPT !.readID = ReadIds[k]]

\* ----------------------------------------------- _dedup_chunk (batch backend)
\* a variant of Distance that takes the sum for either method
Distance_always_sum(method, a, b) ==
    Abs(a.pos1 - b.pos1) + Abs(a.pos2 - b.pos2)

\* lib/dedup.py:209-212: p = 1 for "sum", inf for "max"
Distance(method, a, b) ==
    IF method = "sum"
    THEN Abs(a.pos1 - b.pos1) + Abs(a.pos2 - b.pos2)
    ELSE Max2(Abs(a.pos1 - b.pos1), Abs(a.pos2 - b.pos2))

\* a variant of mask_unmapped that looks at side 1 only
mask_unmapped_chrom1_only(row, unmapped_chrom) ==
    row.chrom1 = unmapped_chrom

\* lib/dedup.py:225
mask_unmapped(row, unmapped_chrom) ==
    (row.chrom1 = unmapped_chrom) \/ (row.chrom2 = unmapped_chrom)

\* lib/dedup.py:245-253
need_to_match(extra_col_pairs) ==
    << <<"chrom1", "chrom1">>, <<"chrom2", "chrom2">>,
       <<"strand1", "strand1">>, <<"strand2", "strand2">> >> \o extra_col_pairs

\* a variant of nonpos_matches that compares the chromosomes only
nonpos_matches_chroms_only(a, b, extra_col_pairs) ==
    a.chrom1 = b.chrom1 /\ a.chrom2 = b.chrom2

\* lib/dedup.py:254-261: the columns of row a0 against those of row a1
nonpos_matches(a, b, extra_col_pairs) ==
    LET ntm == need_to_match(extra_col_pairs)
    IN  \A k \in 1..Len(ntm) : a[ntm[k][1]] = b[ntm[k][2]]

\* a variant of query_pairs that takes the pairs at distance r exactly
query_pairs_at_radius(m, r, method, backend) ==
    { e \in (1..Len(m)) \X (1..Len(m)) :
        /\ IF backend = "sklearn" THEN e[1] # e[2] ELSE e[1] < e[2]
        /\ Distance(method, m[e[1]].cols, m[e[2]].cols) = r }

\* lib/dedup.py:232-244: the candidate pairs <<a0, a1>> over the mapped rows.
\* cKDTree.query_pairs gives each pair once, a0 < a1;
\* radius_neighbors_graph gives both orders.
query_pairs(m, r, method, backend) ==
    { e \in (1..Len(m)) \X (1..Len(m)) :
        /\ IF backend = "sklearn" THEN e[1] # e[2] ELSE e[1] < e[2]
        /\ Distance(method, m[e[1]].cols, m[e[2]].cols) <= r }

\* lib/dedup.py:262-264: the edges kept
a_mat(m, r, method, backend, extra_col_pairs) ==
    { e \in query_pairs(m, r, method, backend) :
        nonpos_matches(m[e[1]].cols, m[e[2]].cols, extra_col_pairs) }

\* lib/dedup.py:267: connected_components(a_mat, directed=False)[1]; the label
\* of a component is here its smallest member (any labelling gives the same
\* value of duplicated()).
RECURSIVE Reach(_, _)
Reach(E, S) ==
    LET T == S \cup { e[2] : e \in { e \in E : e[1] \in S } }
                \cup { e[1] : e \in { e \in E : e[2] \in S } }
    IN  IF T = S THEN S ELSE Reach(E, T)

connected_components(n, E) == [i \in 1..n |-> MinOf(Reach(E, {i}))] @@ <<>>

\* a variant of duplicated that keeps the last occurrence (keep="last")
duplicated_keep_last(s) ==
    [k \in DOMAIN s |-> \E j \in DOMAIN s : j > k /\ s[j] = s[k]] @@ <<>>

\* pandas Series.duplicated(): true but for the first occurrence of a value
duplicated(s) == [k \in DOMAIN s |-> \E j \in DOMAIN s : j < k /\ s[j] = s[k]] @@ <<>>

\* lib/dedup.py:159-286. df is a sequence of rows (records over colnames) with
\* the labels 0..Len(df)-1. The result rows are [index, cols, duplicate,
\* parent_readID]: the unmapped rows first, then the mapped ones (line 280),
\* each under its original label (line 281). parent_readID is <<>> when the
\* column does not exist.
_dedup_chunk(df, r, method, keep_parent_id, extra_col_pairs, backend, unmapped_chrom) ==
    LET labelled == [i \in 1..Len(df) |-> [index |-> i - 1, cols |-> df[i]]]
        IsUnmapped(x) == mask_unmapped(x.cols, unmapped_chrom)
        IsMapped(x) == ~mask_unmapped(x.cols, unmapped_chrom)
        df_unmapped == SelectSeq(labelled, IsUnmapped)
        df_mapped == SelectSeq(labelled, IsMapped)
        N_mapped == Len(df_mapped)
        clusterid == connected_components(N_mapped,
                        a_mat(df_mapped, r, method, backend, extra_col_pairs))
        mask_dups == duplicated(clusterid)
        first(k) == MinOf({ j \in 1..N_mapped : clusterid[j] = clusterid[k] /\ ~mask_dups[j] })
        out_unmapped == [k \in 1..Len(df_unmapped) |->
            [index |-> df_unmapped[k].index, cols |-> df_unmapped[k].cols,
             duplicate |-> FALSE,
             parent_readID |-> IF keep_parent_id THEN <<"">> ELSE <<>>]]
        out_mapped == [k \in 1..N_mapped |->
            [index |-> df_mapped[k].index, cols |-> df_mapped[k].cols,
             duplicate |-> mask_dups[k],
             parent_readID |-> IF keep_parent_id
                               THEN <<df_mapped[first(k)].cols.readID>> ELSE <<>>]]
    IN  out_unmapped \o out_mapped

\* pairtools_dedup.py:456-562, the copy of _dedup_chunk that dedup_py's own
\* drivers use: the same marking (lines 511-553: query, need_to_match,
\* connected_components, duplicated, parent_readID); the result is
\* pd.concat([unmapped, df]).reset_index(drop=True) (line 562): the unmapped
\* rows first, then the mapped ones, relabelled 0, 1, ...
dedup_chunk(df, r, method, keep_parent_read_id, extra_col_pairs, backend, unmapped_chrom) ==
    LET marked == _dedup_chunk(df, r, method, keep_parent_read_id, extra_col_pairs,
                               backend, unmapped_chrom)
    IN  [k \in 1..Len(df) |-> [marked[k] EXCEPT !.index = k - 1]] @@ <<>>

\* ------------------------------------------------------ pandas frame helpers
is_monotonic_increasing(df) ==
    \A i \in 1..Len(df) - 1 : df[i].index <= df[i + 1].index

\* df.loc[start:, :] on a frame whose labels are unique integers: on a
\* monotonic index the rows from the first label >= start; otherwise the rows
\* from the position of the label start (Index.get_slice_bound -> get_loc).
loc_from(df, start) ==
    LET ps == IF is_monotonic_increasing(df)
              THEN { p \in 1..Len(df) : df[p].index >= start }
              ELSE { p \in 1..Len(df) : df[p].index = start }
    IN  IF ps = {} THEN <<>> ELSE SubSeq(df, MinOf(ps), Len(df))

\* df.tail(n), n >= 0
tail(df, n) ==
    IF n >= Len(df) THEN df ELSE SubSeq(df, Len(df) - n + 1, Len(df))

\* ------------------------------------------- _dedup_stream: one chunk's body
\* lib/dedup.py:133-147: the marked frame of a chunk df after the carryover
\* rows were cut off and the duplicates' pair_type rewritten
df_marked_of(df, prev_nodups, previ) ==
    LET marked == _dedup_chunk(prev_nodups \o df, cfg.max_mismatch, cfg.method,
                               cfg.keep_parent_id, cfg.extra_col_pairs,
                               cfg.backend, "!")
        cut == loc_from(marked, previ)
    IN  [k \in 1..Len(cut) |->
            IF cfg.mark_dups /\ cut[k].duplicate
            THEN [cut[k] EXCEPT !.cols.pair_type = "DD"]
            ELSE cut[k]]

\* lib/dedup.py:150-153
df_nodups_of(df_marked) ==
    LET NotDup(x) == ~x.duplicate
        nodups == SelectSeq(df_marked, NotDup)
    IN  [k \in 1..Len(nodups) |-> nodups[k].cols]

\* ------------------------------------------------------------------ sinks
Handles == {"out", "dups", "unmapped"}

\* file.write of a sequence of lines on handle h ("none": no such sink)
write(f, h, lines) == IF h = "none" THEN f ELSE [f EXCEPT ![h] = @ \o lines]

Line(cols, extra) == [cols |-> cols, extra |-> extra]

\* lib/dedup.py:69-98: the three to_csv calls of streaming_dedup on one chunk
streaming_write(f, df_chunk) ==
    LET mask_mapped(x) == (x.cols.chrom1 # cfg.unmapped_chrom)
                          /\ (x.cols.chrom2 # cfg.unmapped_chrom)
        IsDup(x) == mask_mapped(x) /\ x.duplicate
        IsUnm(x) == ~mask_mapped(x)
        IsUniq(x) == mask_mapped(x) /\ ~x.duplicate
        dups == SelectSeq(df_chunk, IsDup)
        unm == SelectSeq(df_chunk, IsUnm)
        uniq == SelectSeq(df_chunk, IsUniq)
        f1 == write(f, cfg.outstream_dups,
                    [k \in 1..Len(dups) |-> Line(dups[k].cols, dups[k].parent_readID)])
        f2 == write(f1, cfg.outstream_unmapped,
                    [k \in 1..Len(unm) |-> Line(unm[k].cols, <<>>)])
    IN  write(f2, cfg.outstream, [k \in 1..Len(uniq) |-> Line(uniq[k].cols, <<>>)])

\* ---------------------------------------------------------- batch driver
IsBatch == cfg.backend \in {"scipy", "sklearn"}

\* a variant of method_ok that lets every method pass (any other than sum
\* is then handled like max, lib/dedup.py:209-212)
method_ok_unchecked(method) == method = method

\* lib/dedup.py:204-205: _dedup_chunk raises ValueError for any other method
method_ok(method) == method \in {"max", "sum"}

\* the rows of a chunk read behind `before` records
NumberedFrom(rows, before) == [k \in 1..Len(rows) |-> Numbered(rows[k], before + k)]

\* out_stat.add_pairs_from_dataframe(df_chunk, unmapped_chrom): the call is
\* kept as the read ids of the rows it was given
add_pairs_from_dataframe(df_chunk, unmapped_chrom) ==
    [ frame |-> [k \in 1..Len(df_chunk) |-> df_chunk[k].cols.readID],
      unmapped_chrom |-> unmapped_chrom ]

\* lib/dedup.py:150-154: the next carryover
keep_carryover(carry) == df_prev_nodups' = carry /\ prev_i' = Len(carry)

\* lib/dedup.py:144-156 and 62-98: the marked chunk is yielded, the carryover
\* kept, the chunk counted and written; last: the reader has no more rows
yield_chunk(df_marked, last) ==
    /\ keep_carryover(tail(df_nodups_of(df_marked), cfg.carryover))
    /\ stat' = IF cfg.out_stat
               THEN Append(stat, add_pairs_from_dataframe(df_marked, cfg.unmapped_chrom))
               ELSE stat
    /\ files' = streaming_write(files, df_marked)
    /\ pc' = IF last THEN "eof" ELSE "run"

\* one iteration of the loop of streaming_dedup (lib/dedup.py:62-98) over the
\* generator _dedup_stream (lib/dedup.py:132-156): pd.read_table delivers the
\* next chunk df (chunksize rows, fewer at the end of the stream), the chunk
\* is marked behind the carryover, the carryover rows are cut off, the next
\* carryover is kept and the chunk is written to the sinks. On a stream
\* without any record the reader still delivers one chunk, an empty frame
\* with the columns colnames (the first read of a pandas reader that was
\* given names returns the empty frame; only a later read ends the iteration).
StreamingDedupChunk ==
    /\ pc = "run" /\ IsBatch
    /\ \E n \in 0..cfg.chunksize :
         /\ Len(input) + n <= in_stream.len
         /\ n = 0 => Len(input) = 0
         /\ \E rows \in [1..n -> in_stream.recs] :
              /\ input' = input \o NumberedFrom(rows, Len(input))
              /\ IF method_ok(cfg.method)
                 THEN yield_chunk(df_marked_of(NumberedFrom(rows, Len(input)),
                                               df_prev_nodups, prev_i),
                                  n < cfg.chunksize)
                 ELSE /\ pc' = "error"
                      /\ UNCHANGED <<df_prev_nodups, prev_i, files, stat>>
    /\ UNCHANGED <<call, closed, fetched, cfg, in_stream, old_nodups, old_i>>
    /\ UNCHANGED bufferVars

\* the reader is exhausted (after a short chunk, or at a chunk boundary
\* behind a full one): streaming_dedup returns
StreamingDedupReturn ==
    /\ IsBatch
    /\ pc = "eof" \/ (pc = "run" /\ Len(input) > 0)
    /\ pc' = "done"
    /\ UNCHANGED <<call, closed, fetched, cfg, in_stream, input, files>>
    /\ UNCHANGED batchVars
    /\ UNCHANGED onlineVars

\* ------------------------------- the batch driver of pairtools_dedup.py
\* pairtools_dedup.py:602: i = max(nodups.shape[0] // 100, 100)
CarryPercent == 100
CarryFloor == 100

\* df.iloc[i:, :]: the rows from position i on
iloc_from(df, i) == IF i >= Len(df) THEN <<>> ELSE SubSeq(df, i + 1, Len(df))

\* pairtools_dedup.py:585-599: the marked frame of a chunk df: dedup_chunk on
\* the carryover followed by the chunk (unmapped_chrom is left at its
\* default), the first old_i rows of the result cut off, the duplicates'
\* pair_type rewritten
marked_of(df, oldnodups, oldi) ==
    LET marked == iloc_from(dedup_chunk(oldnodups \o df, cfg.max_mismatch, cfg.method,
                                        cfg.keep_parent_id, cfg.extra_col_pairs,
                                        cfg.backend, "!"), oldi)
    IN  [k \in 1..Len(marked) |->
            IF cfg.mark_dups /\ marked[k].duplicate
            THEN [marked[k] EXCEPT !.cols.pair_type = "DD"]
            ELSE marked[k]] @@ <<>>

\* pairtools_dedup.py:599-601: nodups = marked[~marked["duplicate"]][colnames]
nodups_of(marked) ==
    LET NotDup(x) == ~x.duplicate
        nodups == SelectSeq(marked, NotDup)
    IN  [k \in 1..Len(nodups) |-> nodups[k].cols] @@ <<>>

\* pairtools_dedup.py:602-604: the next carryover is the last i rows of
\* nodups (all of them when there are fewer); old_i is i
keep_old_nodups(nodups, i) == old_nodups' = tail(nodups, i) /\ old_i' = i

\* pairtools_dedup.py:647-661: the three to_csv calls of streaming_dedup on
\* one chunk: duplicates, then unique, then unmapped
streaming_write_py(f, chunk) ==
    LET mapped(x) == (x.cols.chrom1 # cfg.unmapped_chrom)
                     /\ (x.cols.chrom2 # cfg.unmapped_chrom)
        IsDup(x) == mapped(x) /\ x.duplicate
        IsUniq(x) == mapped(x) /\ ~x.duplicate
        IsUnm(x) == ~mapped(x)
        dups == SelectSeq(chunk, IsDup)
        uniq == SelectSeq(chunk, IsUniq)
        unm == SelectSeq(chunk, IsUnm)
        f1 == write(f, cfg.outstream_dups,
                    [k \in 1..Len(dups) |-> Line(dups[k].cols, dups[k].parent_readID)])
        f2 == write(f1, cfg.outstream, [k \in 1..Len(uniq) |-> Line(uniq[k].cols, <<>>)])
    IN  write(f2, cfg.outstream_unmapped, [k \in 1..Len(unm) |-> Line(unm[k].cols, <<>>)])

\* pairtools_dedup.py:600-605 and 640-661: the carryover is kept, the marked
\* chunk yielded, counted and written
yield_marked(marked, last) ==
    /\ keep_old_nodups(nodups_of(marked),
                       Max2(Len(nodups_of(marked)) \div CarryPercent, CarryFloor))
    /\ stat' = IF cfg.out_stat
               THEN Append(stat, add_pairs_from_dataframe(marked, cfg.unmapped_chrom))
               ELSE stat
    /\ files' = streaming_write_py(files, marked)
    /\ pc' = IF last THEN "eof" ELSE "run"

\* one iteration of the loop of streaming_dedup (pairtools_dedup.py:640-661)
\* over the generator _dedup_by_chunk (pairtools_dedup.py:578-605)
DedupByChunk ==
    /\ pc = "run" /\ IsBatch
    /\ \E n \in 0..cfg.chunksize :
         /\ Len(input) + n <= in_stream.len
         /\ n = 0 => Len(input) = 0
         /\ \E rows \in [1..n -> in_stream.recs] :
              /\ input' = input \o NumberedFrom(rows, Len(input))
              /\ IF method_ok(cfg.method)
                 THEN yield_marked(marked_of(NumberedFrom(rows, Len(input)),
                                             old_nodups, old_i),
                                   n < cfg.chunksize)
                 ELSE /\ pc' = "error"
                      /\ UNCHANGED <<old_nodups, old_i, files, stat>>
    /\ UNCHANGED <<call, closed, fetched, cfg, in_stream, df_prev_nodups, prev_i>>
    /\ UNCHANGED bufferVars

\* the reader is exhausted: the loop of streaming_dedup
\* (pairtools_dedup.py:640) ends
StreamingDedupPyReturn ==
    /\ IsBatch
    /\ pc = "eof" \/ (pc = "run" /\ Len(input) > 0)
    /\ pc' = "done"
    /\ UNCHANGED <<call, closed, fetched, cfg, in_stream, input, files>>
    /\ UNCHANGED batchVars
    /\ UNCHANGED onlineVars

\* one call of _dedup_chunk (lib/dedup.py:159-286) and of dedup_chunk
\* (pairtools_dedup.py:456-562) on a frame df of up to in_stream.len rows
DedupChunkCall ==
    /\ pc = "run" /\ IsBatch /\ method_ok(cfg.method) /\ ~call.made
    /\ \E n \in 0..in_stream.len :
         \E rows \in [1..n -> in_stream.recs] :
            call' = [ made |-> TRUE,
                      df |-> NumberedFrom(rows, 0),
                      lib |-> _dedup_chunk(NumberedFrom(rows, 0), cfg.max_mismatch,
                                           cfg.method, cfg.keep_parent_id,
                                           cfg.extra_col_pairs, cfg.backend,
                                           cfg.unmapped_chrom),
                      py |-> dedup_chunk(NumberedFrom(rows, 0), cfg.max_mismatch,
                                         cfg.method, cfg.keep_parent_id,
                                         cfg.extra_col_pairs, cfg.backend,
                                         cfg.unmapped_chrom) ]
    /\ UNCHANGED <<closed, fetched, cfg, in_stream, input, pc, files, stat>>
    /\ UNCHANGED batchVars
    /\ UNCHANGED bufferVars

\* streaming_dedup (lib/dedup.py:26-106) over _dedup_stream (lib/dedup.py:
\* 109-156) on a whole input, the sequence lines, as the sinks it leaves
\* behind: f holds what was written so far, prev_nodups and previ are the
\* carryover
RECURSIVE streaming_dedup(_, _, _, _)

\* lib/dedup.py:150-156: the next chunk is read behind the carryover carry
streaming_dedup_carry(f, rest, carry) == streaming_dedup(f, rest, carry, Len(carry))

\* lib/dedup.py:62-98 and 150-153: the marked chunk is written and its
\* non-duplicates are kept
streaming_dedup_yield(f, rest, df_marked) ==
    streaming_dedup_carry(streaming_write(f, df_marked), rest,
                          tail(df_nodups_of(df_marked), cfg.carryover))

streaming_dedup(f, lines, prev_nodups, previ) ==
    IF lines = <<>> THEN f
    ELSE IF Len(lines) <= cfg.chunksize
    THEN streaming_dedup_yield(f, <<>>, df_marked_of(lines, prev_nodups, previ))
    ELSE streaming_dedup_yield(f, SubSeq(lines, cfg.chunksize + 1, Len(lines)),
                               df_marked_of(SubSeq(lines, 1, cfg.chunksize),
                                            prev_nodups, previ))

\* ------------------------------------------------- online duplicate detector
\* OnlineDuplicateDetector (dedup_cython): a FIFO window of the records pushed
\* and not yet returned, each with its classification rm (duplicate or not),
\* its parent's ingest index and its own ingest index; N counts the records
\* ever pushed. log is a history of the model: the classifications returned so
\* far, each with the read id of the record it was computed for (the detector
\* itself never sees a read id).
new_detector(method, max_mismatch, keep_parent_id) ==
    [ method |-> method, max_mismatch |-> max_mismatch,
      keep_parent_id |-> keep_parent_id, window |-> <<>>, N |-> 0, log |-> <<>> ]

\* dd.getLen() of a new detector
getLen(d) == Len(d.window)

\* push, step 1: the oldest record y of the window leaves it before x enters
evictable(y, x, r) ==
    \/ y.c1 < x.c1
    \/ (y.c1 = x.c1 /\ y.c2 < x.c2)
    \/ (y.c1 = x.c1 /\ y.c2 = x.c2 /\ y.p1 < x.p1 - r)

RECURSIVE evict_count(_, _, _)
evict_count(w, x, r) ==
    IF w # <<>> /\ evictable(Head(w), x, r) THEN 1 + evict_count(Tail(w), x, r) ELSE 0

\* push, step 2: y makes x a duplicate (bounding box, keys, then the metric)
is_dup_of(y, x, method, r) ==
    /\ Abs(x.p1 - y.p1) <= r /\ Abs(x.p2 - y.p2) <= r
    /\ x.c1 = y.c1 /\ x.c2 = y.c2 /\ x.s1 = y.s1 /\ x.s2 = y.s2
    /\ IF method = "sum"
       THEN Abs(x.p1 - y.p1) + Abs(x.p2 - y.p2) <= r
       ELSE Max2(Abs(x.p1 - y.p1), Abs(x.p2 - y.p2)) <= r

\* push of one record x: the result is the detector and the classifications
\* (res) and parents of the records that left the window, oldest first
push_one(d, x) ==
    LET k == evict_count(d.window, x, d.max_mismatch)
        gone == SubSeq(d.window, 1, k)
        rest == SubSeq(d.window, k + 1, Len(d.window))
        hits == { j \in 1..Len(rest) : is_dup_of(rest[j], x, d.method, d.max_mismatch) }
        entry == [ c1 |-> x.c1, c2 |-> x.c2, p1 |-> x.p1, p2 |-> x.p2,
                   s1 |-> x.s1, s2 |-> x.s2,
                   rm |-> hits # {},
                   parent |-> IF hits # {} THEN rest[MinOf(hits)].ingest_index ELSE 0,
                   ingest_index |-> d.N, id |-> x.id ]
    IN  [ dd |-> [d EXCEPT !.window = Append(rest, entry), !.N = d.N + 1,
                           !.log = @ \o [j \in 1..k |-> <<gone[j].id, gone[j].rm>>]],
          res |-> [j \in 1..k |-> gone[j].rm] @@ <<>>,
          parents |-> [j \in 1..k |-> gone[j].parent] @@ <<>> ]

\* push(c1, c2, p1, p2, s1, s2): the records of the arrays, in order
RECURSIVE push(_, _)
push(d, xs) ==
    IF xs = <<>> THEN [dd |-> d, res |-> <<>>, parents |-> <<>>]
    ELSE LET one == push_one(d, Head(xs))
             more == push(one.dd, Tail(xs))
         IN  [ dd |-> more.dd, res |-> one.res \o more.res,
               parents |-> one.parents \o more.parents ]

\* finish(): the window is drained
finish(d) ==
    [ dd |-> [d EXCEPT !.window = <<>>,
                       !.log = @ \o [j \in 1..Len(d.window) |->
                                        <<d.window[j].id, d.window[j].rm>>]],
      res |-> [j \in 1..Len(d.window) |-> d.window[j].rm] @@ <<>>,
      parents |-> [j \in 1..Len(d.window) |-> d.window[j].parent] @@ <<>> ]

\* ------------------------------------------------------------ online driver
\* a variant of strip that leaves the key as it is
strip_nothing(key) == key

\* str.strip() on the keys of the model: blanks around a key are dropped
strip(key) ==
    CASE key = " a" -> "a" [] key = "a " -> "a" [] key = " +" -> "+" [] OTHER -> key

\* lib/dedup.py:540-544 on a table held as the sequence of its keys in
\* insertion order (the id of a key is its position - 1): the new table
fetchadd_dict(key, mydict) ==
    IF \E i \in 1..Len(mydict) : mydict[i] = strip(key)
    THEN mydict ELSE Append(mydict, strip(key))

\* lib/dedup.py:540-544: the id returned
fetchadd(key, mydict) ==
    LET t == fetchadd_dict(key, mydict)
    IN  (CHOOSE i \in 1..Len(t) : t[i] = strip(key)) - 1

\* the keys fetchadd is called with on its own: chromosome and strand
\* names, some with a blank in front or behind
Keys == {"a", " a", "a ", "b", "+", " +"}

\* one call of fetchadd(key, mydict) (lib/dedup.py:540-544, the same function
\* as pairtools_dedup.py:445-449) on the table chromDict: the table is updated
\* in place and the id returned
FetchAdd ==
    /\ pc = "run" /\ Len(fetched) < MaxCalls
    /\ \E key \in Keys :
         /\ chromDict' = fetchadd_dict(key, chromDict)
         /\ fetched' = Append(fetched, [key |-> key, id |-> fetchadd(key, chromDict)])
    /\ UNCHANGED <<call, closed, cfg, in_stream, input, pc, files, stat>>
    /\ UNCHANGED batchVars
    /\ UNCHANGED <<line_buffer, cols_buffer, arrays, strandDict, dd>>

\* the value of a column that the line does not have
NoColumn == "<no column>"

\* lib/dedup.py:552-572 on the columns of a .pairs line (no sam columns)
mark_split_pair_as_dup(cols) == [cols EXCEPT !.pair_type = "DD"]

\* lib/dedup.py:556: cols[COL_PTYPE] = "DD" raises IndexError on a line
\* without that column
can_mark(cols) == cols.pair_type # NoColumn

\* a variant of add_pair that reports the pair type of the line, whatever
\* the type it is given
add_pair_of_line(cols, type) ==
    [ args |-> <<cols.chrom1, cols.pos1, cols.strand1,
                 cols.chrom2, cols.pos2, cols.strand2, cols.pair_type>>,
      readID |-> cols.readID ]

\* out_stat.add_pair(chrom1, pos1, strand1, chrom2, pos2, strand2, type);
\* readID is not an argument: it names the record the call was made for
add_pair(cols, type) ==
    [ args |-> <<cols.chrom1, cols.pos1, cols.strand1,
                 cols.chrom2, cols.pos2, cols.strand2, type>>,
      readID |-> cols.readID ]

\* lib/dedup.py:370
curMaxLen == Max2(MAX_LEN, getLen(new_detector(cfg.method, cfg.max_mismatch, cfg.keep_parent_id)))

\* the state the loop body of streaming_dedup_cython works on
OnlineState ==
    [ files |-> files, stat |-> stat, line_buffer |-> line_buffer,
      cols_buffer |-> cols_buffer, arrays |-> arrays, chromDict |-> chromDict,
      strandDict |-> strandDict, dd |-> dd, pc |-> pc ]

\* pairtools_dedup.py:367-376: the extra columns of side 1 and of side 2
extra_cols1 == [k \in 1..Len(cfg.extra_col_pairs) |-> cfg.extra_col_pairs[k][1]] @@ <<>>
extra_cols2 == [k \in 1..Len(cfg.extra_col_pairs) |-> cfg.extra_col_pairs[k][2]] @@ <<>>

\* lib/dedup.py:346-347
all_scols1 == <<"strand1">> \o extra_cols1
all_scols2 == <<"strand2">> \o extra_cols2

\* "".join(cols[i] for i in names)
RECURSIVE join(_, _)
join(cols, names) ==
    IF names = <<>> THEN "" ELSE cols[Head(names)] \o join(cols, Tail(names))

\* lib/dedup.py:424-433: the key of a side that is interned in strandDict
strand_key(cols, s, extra_cols, all_scols) ==
    IF extra_cols1 # <<>> /\ extra_cols2 # <<>> THEN join(cols, all_scols) ELSE cols[s]

\* lib/dedup.py:386-434: a non-empty line, stripline, with the columns cols
read_part(st, stripline, cols) ==
    IF (cols.chrom1 = cfg.unmapped_chrom) \/ (cols.chrom2 = cfg.unmapped_chrom)
    THEN [st EXCEPT
            !.files = write(@, cfg.outstream_unmapped, <<Line(stripline, <<>>)>>),
            !.stat = IF cfg.out_stat THEN Append(@, add_pair(cols, cols.pair_type)) ELSE @]
    ELSE LET d1 == fetchadd_dict(cols.chrom1, st.chromDict)
             d2 == fetchadd_dict(cols.chrom2, d1)
             k1 == strand_key(cols, "strand1", extra_cols1, all_scols1)
             k2 == strand_key(cols, "strand2", extra_cols2, all_scols2)
             t1 == fetchadd_dict(k1, st.strandDict)
             t2 == fetchadd_dict(k2, t1)
         IN  [st EXCEPT
                !.line_buffer = Append(@, stripline),
                !.cols_buffer = Append(@, cols),
                !.arrays = Append(@, [ c1 |-> fetchadd(cols.chrom1, st.chromDict),
                                       c2 |-> fetchadd(cols.chrom2, d1),
                                       p1 |-> cols.pos1, p2 |-> cols.pos2,
                                       s1 |-> fetchadd(k1, st.strandDict),
                                       s2 |-> fetchadd(k2, t1),
                                       id |-> cols.readID ]),
                !.chromDict = d2,
                !.strandDict = t2]

\* lib/dedup.py:465-508: the loop over res, from position i (1-based here)
RECURSIVE write_res(_, _, _, _)
write_res(st, res, parents, i) ==
    IF i > Len(res) \/ st.pc = "error" THEN st
    ELSE IF i > Len(st.line_buffer) THEN [st EXCEPT !.pc = "error"]
    ELSE IF ~res[i]
    THEN write_res(
            [st EXCEPT
                !.files = write(@, cfg.outstream, <<Line(st.line_buffer[i], <<>>)>>),
                !.stat = IF cfg.out_stat
                         THEN Append(@, add_pair(st.cols_buffer[i], st.cols_buffer[i].pair_type))
                         ELSE @],
            res, parents, i + 1)
    ELSE LET st1 == [st EXCEPT
                        !.stat = IF cfg.out_stat
                                 THEN Append(@, add_pair(st.cols_buffer[i], "DD")) ELSE @]
             marked == mark_split_pair_as_dup(st.cols_buffer[i])
             output == IF cfg.mark_dups THEN marked ELSE st.line_buffer[i]
             \* line_buffer[parents[i]] (0-based)
             parent_ok == parents[i] + 1 \in 1..Len(st.line_buffer)
             extra == IF cfg.keep_parent_id
                      THEN <<st.line_buffer[parents[i] + 1].readID>> ELSE <<>>
         IN  IF cfg.outstream_dups = "none" THEN write_res(st1, res, parents, i + 1)
             ELSE IF cfg.mark_dups /\ ~can_mark(st.cols_buffer[i])
             THEN [st1 EXCEPT !.pc = "error"]
             ELSE IF cfg.keep_parent_id /\ ~parent_ok THEN [st1 EXCEPT !.pc = "error"]
             ELSE write_res(
                    [st1 EXCEPT
                        !.cols_buffer[i] = IF cfg.mark_dups THEN marked ELSE @,
                        !.files = write(@, cfg.outstream_dups, <<Line(output, extra)>>)],
                    res, parents, i + 1)

\* a variant of concatenate that puts the results of finish before those of push
concatenate_finish_first(p, f) ==
    [ dd |-> f.dd, res |-> f.res \o p.res, parents |-> f.parents \o p.parents ]

\* lib/dedup.py:456-463: np.concatenate of the results of push (p) and of
\* finish (f)
concatenate(p, f) ==
    [ dd |-> f.dd, res |-> p.res \o f.res, parents |-> p.parents \o f.parents ]

\* a variant of pushed that never calls finish
pushed_without_finish(p, at_end) == p

\* lib/dedup.py:435-463: res and parents of dd.push, p, followed at the end of
\* the input by those of dd.finish
pushed(p, at_end) == IF at_end THEN concatenate(p, finish(p.dd)) ELSE p

\* a variant of flush that empties the buffers whatever the number of lines
\* that were classified
flush_whole_buffer(w, n, at_end) ==
    IF w.pc = "error" THEN w
    ELSE [w EXCEPT
            !.arrays = <<>>,
            !.line_buffer = <<>>,
            !.cols_buffer = <<>>,
            !.pc = IF at_end THEN "done" ELSE @]

\* lib/dedup.py:510-526: the buffers lose the n lines that were classified; at
\* the end of the input no line may be left
flush(w, n, at_end) ==
    IF w.pc = "error" THEN w
    ELSE [w EXCEPT
            !.arrays = <<>>,
            !.line_buffer = SubSeq(@, n + 1, Len(@)),
            !.cols_buffer = SubSeq(@, n + 1, Len(@)),
            !.pc = IF at_end THEN (IF Len(w.line_buffer) > n THEN "error" ELSE "done") ELSE @]

\* lib/dedup.py:465-526 with the results r of push (and finish)
write_pushed(st, r, at_end) ==
    flush(write_res([st EXCEPT !.dd = r.dd], r.res, r.parents, 1), Len(r.res), at_end)

\* lib/dedup.py:435-526: push (and finish at the end of the input), write the
\* classified lines, trim the buffers
push_part(st, at_end) == write_pushed(st, pushed(push(st.dd, st.arrays), at_end), at_end)

\* lib/dedup.py:435: the buffered records are pushed when curMaxLen of them wait
push_if_full(st) == IF Len(st.arrays) = curMaxLen THEN push_part(st, FALSE) ELSE st

\* lib/dedup.py:386-434 on a line with the columns cols
read_line(st, cols) == read_part(st, cols, cols)

SetOnline(st) ==
    /\ files' = st.files /\ stat' = st.stat
    /\ line_buffer' = st.line_buffer /\ cols_buffer' = st.cols_buffer
    /\ arrays' = st.arrays /\ chromDict' = st.chromDict
    /\ strandDict' = st.strandDict /\ dd' = st.dd /\ pc' = st.pc

IsOnline == cfg.backend = "cython"

\* one iteration of the loop of streaming_dedup_cython (lib/dedup.py:377-527)
\* on a non-empty line: the line is written (unmapped) or buffered (mapped),
\* and the buffered records are pushed when curMaxLen of them are waiting
ReadLine ==
    /\ pc = "run" /\ IsOnline /\ Len(input) < in_stream.len
    /\ \E rec \in in_stream.recs :
         /\ input' = Append(input, Numbered(rec, Len(input) + 1))
         /\ SetOnline(push_if_full(read_line(OnlineState, Numbered(rec, Len(input) + 1))))
    /\ UNCHANGED <<call, closed, fetched, cfg, in_stream>>
    /\ UNCHANGED batchVars

\* the iteration at the end of the input (rawline is None): push, finish,
\* write, check that no line is left, break
ReadEnd ==
    /\ pc = "run" /\ IsOnline
    /\ SetOnline(push_part(OnlineState, TRUE))
    /\ UNCHANGED <<call, closed, fetched, cfg, in_stream, input>>
    /\ UNCHANGED batchVars

\* streaming_dedup_cython (lib/dedup.py:290-537) on a whole input of
\* non-empty lines, from line i on: the state it ends in
RECURSIVE streaming_dedup_cython(_, _, _)
streaming_dedup_cython(st, lines, i) ==
    IF st.pc # "run" THEN st
    ELSE IF i > Len(lines) THEN push_part(st, TRUE)
    ELSE streaming_dedup_cython(push_if_full(read_line(st, lines[i])), lines, i + 1)

\* lib/dedup.py:355-373: the state before the first line is read
OnlineStart ==
    [ files |-> [h \in Handles |-> <<>>], stat |-> <<>>, line_buffer |-> <<>>,
      cols_buffer |-> <<>>, arrays |-> <<>>, chromDict |-> <<>>, strandDict |-> <<>>,
      dd |-> new_detector(cfg.method, cfg.max_mismatch, cfg.keep_parent_id),
      pc |-> "run" ]

\* the index of a column in a line (0-based, as c1ind ... s2ind and ptind)
col_index(name) == (CHOOSE i \in 1..Len(colnames) : colnames[i] = name) - 1

\* lib/dedup.py:342-353: the largest column index the driver reads (no extra
\* columns), with the pair type when statistics are kept
maxind ==
    LET six == { col_index(c) : c \in {"chrom1", "chrom2", "pos1", "pos2", "strand1", "strand2"} }
        top == CHOOSE m \in six : \A x \in six : x <= m
    IN  IF cfg.out_stat THEN Max2(top, col_index("pair_type")) ELSE top

\* a variant of too_few that lets a line of exactly maxind columns pass
too_few_strict(ncols) == ncols < maxind

\* lib/dedup.py:388: len(cols) <= maxind
too_few(ncols) == ncols <= maxind

\* str.split on a line of ncols columns: the columns behind the last one
\* do not exist (of the columns of the model only pair_type, column 7, can be
\* missing from a line the driver goes on to handle)
split(rec, ncols) ==
    IF ncols <= col_index("pair_type") THEN [rec EXCEPT !.pair_type = NoColumn] ELSE rec

\* an iteration on a non-empty line of ncols columns, ncols being less than
\* the eight of a record: the line is rejected (lib/dedup.py:388-392) or, if it
\* still holds every column the driver reads, handled like any line
ReadShortLine ==
    /\ pc = "run" /\ IsOnline /\ in_stream.bad = 0 /\ Len(input) < in_stream.len
    /\ \E ncols \in in_stream.short :
         /\ in_stream' = [in_stream EXCEPT !.bad = ncols]
         /\ IF too_few(ncols)
            THEN /\ pc' = "error"
                 /\ UNCHANGED <<input, files, stat>>
                 /\ UNCHANGED bufferVars
            ELSE \E rec \in in_stream.recs :
                    /\ input' = Append(input, Numbered(split(rec, ncols), Len(input) + 1))
                    /\ SetOnline(push_if_full(read_line(OnlineState,
                               Numbered(split(rec, ncols), Len(input) + 1))))
    /\ UNCHANGED <<call, closed, fetched, cfg>>
    /\ UNCHANGED batchVars

\* a variant of skip_empty_line that takes the empty line for the end of the
\* input
skip_empty_line_as_end(st) == push_part(st, TRUE)

\* lib/dedup.py:381-384: a warning, then `continue`: nothing else happens
skip_empty_line(st) == st

\* an iteration on an empty line (rawline is "\n", stripline is "")
ReadEmptyLine ==
    /\ pc = "run" /\ IsOnline /\ in_stream.empty > 0
    /\ in_stream' = [in_stream EXCEPT !.empty = @ - 1, !.skipped = Append(@, Len(input))]
    /\ SetOnline(skip_empty_line(OnlineState))
    /\ UNCHANGED <<call, closed, fetched, cfg, input>>
    /\ UNCHANGED batchVars

\* a cancellation signal (KeyboardInterrupt) reaches the loop of either
\* driver: neither loop (lib/dedup.py:62-98, 377-527) nor dedup_py catches it,
\* so the run ends there, with nothing flushed and no sink closed by dedup_py
Cancel ==
    /\ pc = "run"
    /\ pc' = "cancelled"
    /\ UNCHANGED <<call, closed, fetched, cfg, in_stream, input, files, stat>>
    /\ UNCHANGED batchVars
    /\ UNCHANGED bufferVars

\* ------------------------------------------------------------- dedup_py
\* pathlib.Path(p).absolute() on the paths of the model (the working
\* directory is /w): "" is the directory itself and "./x" is x
absolute(path) ==
    CASE path = "" -> "/w"
      [] path = "-" -> "/w/-"
      [] path = "x" -> "/w/x"
      [] path = "./x" -> "/w/x"
      [] path = "y" -> "/w/y"
      [] path = "./y" -> "/w/y"
      [] path = "z" -> "/w/z"
      [] OTHER -> "/w/other"

\* pairtools_dedup.py:295-349: the sinks of dedup_py as handles. "out" is
\* outstream (sys.stdout when output is empty), "dups", "unmapped" and
\* "stats" are the handles auto_open returns, "none" is None.
open_sinks(output, output_dups, output_unmapped, output_stats) ==
    LET dups == IF output_dups = "" THEN "none"
                ELSE IF output_dups = "-" \/ absolute(output_dups) = absolute(output)
                     THEN "out" ELSE "dups"
        unmapped == IF output_unmapped = "" THEN "none"
                    ELSE IF output_unmapped = "-"
                            \/ absolute(output_unmapped) = absolute(output)
                         THEN "out"
                         ELSE IF absolute(output_unmapped) = absolute(output_dups)
                              THEN dups ELSE "unmapped"
    IN  [ output |-> output, outstream |-> "out",
          outstream_dups |-> dups, outstream_unmapped |-> unmapped,
          out_stats_stream |-> IF output_stats = "" THEN "none" ELSE "stats",
          out_stat |-> output_stats # "" ]

\* a variant of close_sinks that does not compare the unmapped sink with the
\* duplicates sink
close_sinks_unmapped_twice(c) ==
    (IF c.output # "" THEN <<c.outstream>> ELSE <<>>)
        \o (IF c.outstream_dups # "none" /\ c.outstream_dups # c.outstream
            THEN <<c.outstream_dups>> ELSE <<>>)
        \o (IF c.outstream_unmapped # "none" /\ c.outstream_unmapped # c.outstream
            THEN <<c.outstream_unmapped>> ELSE <<>>)
        \o (IF c.out_stats_stream # "none" THEN <<c.out_stats_stream>> ELSE <<>>)

\* pairtools_dedup.py:428-442: the close() calls of dedup_py, in order
close_sinks(c) ==
    (IF c.output # "" THEN <<c.outstream>> ELSE <<>>)
        \o (IF c.outstream_dups # "none" /\ c.outstream_dups # c.outstream
            THEN <<c.outstream_dups>> ELSE <<>>)
        \o (IF c.outstream_unmapped # "none" /\ c.outstream_unmapped # c.outstream
               /\ c.outstream_unmapped # c.outstream_dups
            THEN <<c.outstream_unmapped>> ELSE <<>>)
        \o (IF c.out_stats_stream # "none" THEN <<c.out_stats_stream>> ELSE <<>>)

\* pairtools_dedup.py:421-442: the driver has returned; dedup_py closes its
\* sinks and returns
DedupPyClose ==
    /\ pc = "done"
    /\ pc' = "returned"
    /\ closed' = close_sinks(cfg)
    /\ UNCHANGED <<call, fetched, cfg, in_stream, input, files, stat>>
    /\ UNCHANGED batchVars
    /\ UNCHANGED bufferVars

\* ------------------------------------------------------ configurations
Methods == {"max", "sum"}

\* a stream of at most n records of U
Stream(U, n) == [recs |-> U, len |-> n, empty |-> 0, skipped |-> <<>>, short |-> {}, bad |-> 0]

\* a stream that may also deliver e empty lines and a line of one of the
\* column counts S; skipped holds, for every empty line read, the number of
\* records read before it, bad is the column count of the short line read
\* (0: none)
LineStream(U, n, e, S) ==
    [recs |-> U, len |-> n, empty |-> e, skipped |-> <<>>, short |-> S, bad |-> 0]

InitWith(streams, cfgs) ==
    /\ cfg \in cfgs
    /\ in_stream \in streams
    /\ input = <<>>
    /\ pc = "run"
    /\ files = [h \in Handles |-> <<>>]
    /\ df_prev_nodups = <<>>
    /\ prev_i = 0
    /\ old_nodups = <<>>
    /\ old_i = 0
    /\ line_buffer = <<>>
    /\ cols_buffer = <<>>
    /\ arrays = <<>>
    /\ chromDict = <<>>
    /\ strandDict = <<>>
    /\ dd = new_detector(cfg.method, cfg.max_mismatch, cfg.keep_parent_id)
    /\ stat = <<>>
    /\ closed = <<>>
    /\ call = [made |-> FALSE, df |-> <<>>, lib |-> <<>>, py |-> <<>>]
    /\ fetched = <<>>

Positions == 0..MaxPos

\* mapped records on one chromosome pair (one of them on another strand), a
\* record unmapped on side 1 and one unmapped on side 2 (which sorts behind
\* the mapped ones)
MappedRecs ==
    Recs({<<"a", "a">>}, Positions, Positions, {<<"+", "+">>})
        \cup Recs({<<"a", "a">>}, {0}, {0}, {<<"-", "+">>})
UnmappedRecs == Recs({<<"!", "a">>, <<"b", "!">>}, {0}, {0}, {<<"+", "+">>})

BatchCfgs ==
    [ backend : {"scipy"}, method : Methods, max_mismatch : 0..MaxR,
      chunksize : 1..MaxChunk, carryover : 0..MaxCarry,
      mark_dups : BOOLEAN, keep_parent_id : BOOLEAN,
      extra_col_pairs : {<<>>}, unmapped_chrom : {"!"},
      outstream : {"out"}, outstream_dups : {"dups"},
      outstream_unmapped : {"unmapped"}, out_stat : {TRUE} ]

InitBatch == InitWith({Stream(MappedRecs \cup UnmappedRecs, MaxLen)}, BatchCfgs)

NextBatch == StreamingDedupChunk \/ StreamingDedupReturn

SpecBatch == InitBatch /\ [][NextBatch]_vars

\* the online driver: mapped records on three chromosome pairs, records
\* unmapped on either side; dedup_py calls it without keep_parent_id
OnlineRecs ==
    Recs({<<"a", "a">>, <<"a", "b">>, <<"b", "b">>}, Positions, Positions, {<<"+", "+">>})
        \cup Recs({<<"a", "a">>}, {0}, {0}, {<<"-", "+">>})
        \cup Recs({<<"!", "a">>, <<"a", "!">>}, {0}, {0}, {<<"+", "+">>})

OnlineCfgs ==
    [ backend : {"cython"}, method : Methods, max_mismatch : 0..MaxR,
      chunksize : {1}, carryover : {0},
      mark_dups : BOOLEAN, keep_parent_id : {FALSE},
      extra_col_pairs : {<<>>}, unmapped_chrom : {"!"},
      outstream : {"out"}, outstream_dups : {"dups"},
      outstream_unmapped : {"unmapped"}, out_stat : {TRUE} ]

\* longer streams of few records: more lines than two pushes take
OnlineLongRecs ==
    Recs({<<"a", "a">>}, {0}, Positions, {<<"+", "+">>})
        \cup Recs({<<"!", "a">>}, {0}, {0}, {<<"+", "+">>})

InitOnline ==
    InitWith({Stream(OnlineRecs, MaxLen), Stream(OnlineLongRecs, MaxLen + 1)}, OnlineCfgs)

NextOnline == ReadLine \/ ReadEnd

SpecOnline == InitOnline /\ [][NextOnline]_vars

\* the online driver run to its end: streams of up to MaxLen + 1 records on
\* two chromosome pairs, at two positions, with an unmapped record
LiveRecs ==
    Recs({<<"a", "a">>}, {0, MaxPos}, {0}, {<<"+", "+">>})
        \cup Recs({<<"a", "b">>, <<"!", "a">>}, {0}, {0}, {<<"+", "+">>})

LiveCfgs == { c \in OnlineCfgs : c.method = "max" /\ ~c.mark_dups }

InitOnlineLive == InitWith({Stream(LiveRecs, MaxLen + 1)}, LiveCfgs)

\* the iteration of the loop of streaming_dedup_cython on which
\* next(instream, None) returns None (lib/dedup.py:378): the loop is left, by
\* the break of line 527 or by the error of line 520
EndOfInput == IsOnline /\ pc = "run" /\ pc' \in {"done", "error"}

\* the loop (lib/dedup.py:377-527) is a single thread that blocks on nothing
\* but the read of the next line, and the input is finite: the reader
\* eventually delivers the end of the input
SpecOnlineLive == InitOnlineLive /\ [][NextOnline]_vars /\ WF_pc(EndOfInput)

\* the online driver with two extra column pairs, (x1, x2) and (y1, y2), on
\* mapped records at one pos1 that differ in the extra columns of side 1
KeyRecs ==
    { rec @@ [x1 |-> v[1], y1 |-> v[2], x2 |-> "0", y2 |-> "0"] :
        rec \in Recs({<<"a", "a">>}, {0}, Positions, {<<"+", "+">>}),
        v \in {<<"a", "bc">>, <<"ab", "c">>, <<"a", "c">>} }

KeyCfgs ==
    [ backend : {"cython"}, method : Methods, max_mismatch : 0..MaxR,
      chunksize : {1}, carryover : {0},
      mark_dups : {FALSE}, keep_parent_id : {FALSE},
      extra_col_pairs : {<< <<"x1", "x2">>, <<"y1", "y2">> >>}, unmapped_chrom : {"!"},
      outstream : {"out"}, outstream_dups : {"dups"},
      outstream_unmapped : {"unmapped"}, out_stat : {TRUE} ]

InitKeys == InitWith({Stream(KeyRecs, MaxLen)}, KeyCfgs)

SpecKeys == InitKeys /\ [][NextOnline]_vars

\* the online driver on records of three chromosomes, a < b < c, of which c
\* can appear (as chrom2) before b does; streams that take two pushes
WindowRecs ==
    Recs({<<"a", "c">>, <<"b", "b">>, <<"b", "c">>}, Positions, {0}, {<<"+", "+">>})

WindowCfgs == { c \in OnlineCfgs : ~c.mark_dups }

InitWindow == InitWith({Stream(WindowRecs, 2 * MAX_LEN)}, WindowCfgs)

SpecWindow == InitWindow /\ [][NextOnline]_vars

\* fetchadd called on its own, on a table that starts empty
InitFetch ==
    InitWith({Stream({}, 0)},
             { c \in OnlineCfgs : c.method = "max" /\ c.max_mismatch = 0 /\ ~c.mark_dups })

NextFetch == FetchAdd

SpecFetch == InitFetch /\ [][NextFetch]_vars

\* the records of U with the pair type t
Typed(U, t) == { [rec EXCEPT !.pair_type = t] : rec \in U }

\* the online driver line by line: records of several pair types, a record
\* with a negative position, an empty line, lines of six and of seven
\* columns; sinks that may be absent, statistics that may not be kept
LinesRecs ==
    Recs({<<"a", "a">>}, {0}, Positions, {<<"+", "+">>})
        \cup Typed(Recs({<<"a", "a">>}, {0}, {0}, {<<"+", "+">>}), "UR")
        \cup Typed(Recs({<<"!", "a">>, <<"b", "!">>}, {0}, {0}, {<<"+", "+">>}), "NU")
        \cup Recs({<<"a", "a">>}, {0 - 1}, {0}, {<<"+", "+">>})

LinesCfgs ==
    [ backend : {"cython"}, method : {"max"}, max_mismatch : 0..MaxR,
      chunksize : {1}, carryover : {0},
      mark_dups : BOOLEAN, keep_parent_id : {FALSE},
      extra_col_pairs : {<<>>}, unmapped_chrom : {"!"},
      outstream : {"out"}, outstream_dups : {"dups", "none"},
      outstream_unmapped : {"unmapped", "none"}, out_stat : BOOLEAN ]

InitLines == InitWith({LineStream(LinesRecs, MaxLen, 1, {6, 7})}, LinesCfgs)

NextLines == ReadLine \/ ReadEnd \/ ReadEmptyLine \/ ReadShortLine

SpecLines == InitLines /\ [][NextLines]_vars

\* the online driver called with keep_parent_id (a caller of the library:
\* dedup_py leaves the default, False)
ParentCfgs == { [c EXCEPT !.keep_parent_id = TRUE] : c \in OnlineCfgs }

InitParent ==
    InitWith({Stream(OnlineRecs, MaxLen), Stream(OnlineLongRecs, MaxLen + 1)}, ParentCfgs)

SpecParent == InitParent /\ [][NextOnline]_vars

\* the batch driver over longer streams of few records: two chunks of two
\* records and more
CarryRecs ==
    Recs({<<"a", "a">>}, {0}, Positions, {<<"+", "+">>})
        \cup Recs({<<"!", "a">>}, {0}, {0}, {<<"+", "+">>})

InitCarry == InitWith({Stream(CarryRecs, MaxLen + 1)}, BatchCfgs)

SpecCarry == InitCarry /\ [][NextBatch]_vars

\* _dedup_chunk and dedup_chunk called on one frame: both backends, both
\* methods, mapped records within and beyond the tolerance of each other,
\* records unmapped on either side
ChunkCfgs ==
    [ backend : {"scipy", "sklearn"}, method : Methods, max_mismatch : 0..MaxR,
      chunksize : {MaxChunk}, carryover : {0},
      mark_dups : {FALSE}, keep_parent_id : BOOLEAN,
      extra_col_pairs : {<<>>}, unmapped_chrom : {"!"},
      outstream : {"out"}, outstream_dups : {"dups"},
      outstream_unmapped : {"unmapped"}, out_stat : {FALSE} ]

InitChunk == InitWith({Stream(MappedRecs \cup UnmappedRecs, MaxLen)}, ChunkCfgs)

NextChunk == DedupChunkCall

SpecChunk == InitChunk /\ [][NextChunk]_vars

\* _dedup_chunk and dedup_chunk called with one extra column pair
\* (phase1, phase2) on frames of mapped records at one position that carry
\* the two extra columns
ExtraRecs ==
    { rec @@ [phase1 |-> x, phase2 |-> y] :
        rec \in Recs({<<"a", "a">>}, {0}, Positions, {<<"+", "+">>}),
        x \in {"0", "1"}, y \in {"0", "1"} }

ChunkExtraCfgs ==
    [ backend : {"scipy", "sklearn"}, method : Methods, max_mismatch : 0..MaxR,
      chunksize : {MaxChunk}, carryover : {0},
      mark_dups : {FALSE}, keep_parent_id : {FALSE},
      extra_col_pairs : {<< <<"phase1", "phase2">> >>}, unmapped_chrom : {"!"},
      outstream : {"out"}, outstream_dups : {"dups"},
      outstream_unmapped : {"unmapped"}, out_stat : {FALSE} ]

InitChunkExtra == InitWith({Stream(ExtraRecs, MaxLen)}, ChunkExtraCfgs)

SpecChunkExtra == InitChunkExtra /\ [][NextChunk]_vars

\* the batch driver of pairtools_dedup.py (streaming_dedup over
\* _dedup_by_chunk) on streams of up to MaxLen records read in chunks of 1 to
\* MaxChunk rows
ByChunkCfgs ==
    [ backend : {"scipy"}, method : Methods, max_mismatch : 0..MaxR,
      chunksize : 1..MaxChunk, carryover : {0},
      mark_dups : BOOLEAN, keep_parent_id : {FALSE},
      extra_col_pairs : {<<>>}, unmapped_chrom : {"!"},
      outstream : {"out"}, outstream_dups : {"dups"},
      outstream_unmapped : {"unmapped"}, out_stat : {TRUE} ]

InitByChunk == InitWith({Stream(MappedRecs \cup UnmappedRecs, MaxLen)}, ByChunkCfgs)

NextByChunk == DedupByChunk \/ StreamingDedupPyReturn

SpecByChunk == InitByChunk /\ [][NextByChunk]_vars

\* the batch driver called with a method that _dedup_chunk may not know, on
\* streams that may hold no record at all
MethodCfgs == { [c EXCEPT !.method = m] : c \in BatchCfgs, m \in Methods \cup {"mean"} }

InitMethod == InitWith({Stream(CarryRecs, MaxLen)}, MethodCfgs)

SpecMethod == InitMethod /\ [][NextBatch]_vars

\* the batch driver under a configured sentinel: records carrying "*" or "!"
SentinelRecs ==
    Recs({<<"*", "a">>}, Positions, {0}, {<<"+", "+">>})
        \cup Recs({<<"!", "a">>}, {0}, {0}, {<<"+", "+">>})
        \cup Recs({<<"a", "a">>}, Positions, {0}, {<<"+", "+">>})

SentinelCfgs ==
    [ backend : {"scipy"}, method : Methods, max_mismatch : 0..MaxR,
      chunksize : 1..MaxChunk, carryover : 0..MaxCarry,
      mark_dups : BOOLEAN, keep_parent_id : BOOLEAN,
      extra_col_pairs : {<<>>}, unmapped_chrom : {"!", "*"},
      outstream : {"out"}, outstream_dups : {"dups"},
      outstream_unmapped : {"unmapped"}, out_stat : {TRUE} ]

InitSentinel == InitWith({Stream(SentinelRecs, MaxLen)}, SentinelCfgs)

SpecSentinel == InitSentinel /\ [][NextBatch]_vars

\* both drivers with sinks that share a handle (dedup_py, lines 319-349: the
\* duplicates sink may be the unique sink, the unmapped sink may be the unique
\* or the duplicates sink)
SharedRecs ==
    Recs({<<"a", "a">>}, Positions, {0}, {<<"+", "+">>})
        \cup Recs({<<"!", "a">>, <<"b", "!">>}, {0}, {0}, {<<"+", "+">>})

SharedCfgs ==
    { c \in [ backend : {"scipy", "cython"}, method : {"max"}, max_mismatch : 0..MaxR,
              chunksize : 1..MaxChunk, carryover : 0..MaxCarry,
              mark_dups : BOOLEAN, keep_parent_id : {FALSE},
              extra_col_pairs : {<<>>}, unmapped_chrom : {"!"},
              outstream : {"out"}, outstream_dups : {"out", "dups"},
              outstream_unmapped : {"out", "dups", "unmapped"}, out_stat : {TRUE} ] :
        /\ c.outstream_dups = "out" \/ c.outstream_unmapped \in {"out", "dups"}
        /\ c.backend = "cython" => (c.chunksize = 1 /\ c.carryover = 0) }

InitShared == InitWith({Stream(SharedRecs, MaxLen)}, SharedCfgs)

\* dedup_py (pairtools_dedup.py:255-442) from its path arguments: an empty
\* output is the standard output, "-" and equal paths make sinks share a
\* handle; either driver on short streams
PyRecs == Recs({<<"a", "a">>, <<"!", "a">>}, {0}, {0}, {<<"+", "+">>})

PyCfgs ==
    { open_sinks(o, d, u, s) @@ c :
        o \in {"", "x", "./x"}, d \in {"", "-", "x", "y"},
        u \in {"", "-", "x", "./x", "y", "./y", "z"}, s \in {"", "s"},
        c \in [ backend : {"scipy", "cython"}, method : {"max"}, max_mismatch : {0},
                chunksize : {1}, carryover : {0},
                mark_dups : {FALSE}, keep_parent_id : {FALSE},
                extra_col_pairs : {<<>>}, unmapped_chrom : {"!"} ] }

InitPy == InitWith({Stream(PyRecs, MAX_LEN)}, PyCfgs)

NextPy ==
    StreamingDedupChunk \/ StreamingDedupReturn \/ ReadLine \/ ReadEnd \/ DedupPyClose

SpecPy == InitPy /\ [][NextPy]_vars

\* dedup_py with three sinks, interrupted at any iteration of its driver
CancelCfgs ==
    { c \in PyCfgs : c.outstream_dups # "none" /\ c.outstream_unmapped # "none" }

InitCancel == InitWith({Stream(PyRecs, MaxLen)}, CancelCfgs)

NextCancel == NextPy \/ Cancel

SpecCancel == InitCancel /\ [][NextCancel]_vars

Init == InitShared

Next == StreamingDedupChunk \/ StreamingDedupReturn \/ ReadLine \/ ReadEnd

SpecShared == InitShared /\ [][Next]_vars

Spec == Init /\ [][Next]_vars

\* ------------------------------------------------ vocabulary of the claims
\* (stated from the claims' words, independently of the operators above)
InputIdx == 1..Len(input)
IngestIndex(line) == IdxOf(line.cols.readID)
OccurrencesIn(f, h, id) == Cardinality({ k \in 1..Len(f[h]) : f[h][k].cols.readID = id })
Occurrences(h, id) == OccurrencesIn(files, h, id)
TimesWritten(id) == Occurrences("out", id) + Occurrences("dups", id) + Occurrences("unmapped", id)
OnSink(h, id) == Occurrences(h, id) > 0

HasSentinel(rec) == rec.chrom1 = cfg.unmapped_chrom \/ rec.chrom2 = cfg.unmapped_chrom
SameKey(a, b) ==
    /\ a.chrom1 = b.chrom1 /\ a.chrom2 = b.chrom2
    /\ a.strand1 = b.strand1 /\ a.strand2 = b.strand2
Metric(a, b) ==
    LET d1 == IF a.pos1 >= b.pos1 THEN a.pos1 - b.pos1 ELSE b.pos1 - a.pos1
        d2 == IF a.pos2 >= b.pos2 THEN a.pos2 - b.pos2 ELSE b.pos2 - a.pos2
    IN  IF cfg.method = "sum" THEN d1 + d2 ELSE IF d1 >= d2 THEN d1 ELSE d2
\* two records are neighbours: both mapped, same categorical tuple, distance <= r
Linked(a, b) ==
    /\ ~HasSentinel(a) /\ ~HasSentinel(b)
    /\ SameKey(a, b) /\ Metric(a, b) <= cfg.max_mismatch

\* the members (positions of s) of the connected component of position i
RECURSIVE Grow(_, _)
Grow(s, S) ==
    LET T == S \cup { j \in 1..Len(s) : \E i \in S : Linked(s[i], s[j]) }
    IN  IF T = S THEN S ELSE Grow(s, T)
Component(s, i) == Grow(s, {i})

\* the input is sorted by (chrom1, chrom2, pos1, pos2)
ChromRank(c) == CASE c = "!" -> 0 [] c = "*" -> 1 [] c = "a" -> 2 [] c = "b" -> 3 [] OTHER -> 4
SortKeyLeq(a, b) ==
    LET ka == <<ChromRank(a.chrom1), ChromRank(a.chrom2), a.pos1, a.pos2>>
        kb == <<ChromRank(b.chrom1), ChromRank(b.chrom2), b.pos1, b.pos2>>
    IN  \/ ka = kb
        \/ \E n \in 1..4 : ka[n] < kb[n] /\ \A m \in 1..(n - 1) : ka[m] = kb[m]
Sorted(s) == \A i \in 1..(Len(s) - 1) : SortKeyLeq(s[i], s[i + 1])

\* the lines a step appended to handle h
Appended(h) == SubSeq(files'[h], Len(files[h]) + 1, Len(files'[h]))
AppendedIds(h) == { Appended(h)[k].cols.readID : k \in 1..Len(Appended(h)) }

\* ------------------------------------------------------------------ C1
\* C1: batch driver, three distinct sinks: when the driver has returned, every
\* input record has been written exactly once over the unique, duplicates and
\* unmapped sinks, wherever the unmapped records sit in the input.
C1_EachRecordWrittenOnce ==
    pc = "done" => \A i \in InputIdx : TimesWritten(input[i].readID) = 1


\* ------------------------------------------------------------------ C2
\* C2: online driver, three distinct sinks: when the driver has returned,
\* every input line has been written exactly once: to the unmapped sink if a
\* chromosome is the sentinel, otherwise to the unique sink if the detector
\* classified that record non-duplicate and to the duplicates sink if it
\* classified it duplicate.
Verdicts(id) == { k \in 1..Len(dd.log) : dd.log[k][1] = id }
C2_OnlinePartition ==
    pc = "done" =>
        \A i \in InputIdx :
            LET rec == input[i] IN
            /\ TimesWritten(rec.readID) = 1
            /\ HasSentinel(rec) => OnSink("unmapped", rec.readID)
            /\ ~HasSentinel(rec) =>
                /\ Cardinality(Verdicts(rec.readID)) = 1
                /\ \A k \in Verdicts(rec.readID) :
                      OnSink(IF dd.log[k][2] THEN "dups" ELSE "out", rec.readID)
\* an input longer than the push size with a duplicate, a unique and an
\* unmapped record, all written
C2_Witness ==
    /\ pc = "done" /\ IsOnline /\ Len(input) > MAX_LEN
    /\ Len(files["unmapped"]) > 0 /\ Len(files["dups"]) > 0 /\ Len(files["out"]) > 1
    /\ \E i \in InputIdx : i > MAX_LEN /\ ~HasSentinel(input[i])

\* ------------------------------------------------------------------ C3
\* C3: batch driver, sorted input, any chunksize: of every duplicate cluster
\* (connected component over all mapped input records) exactly the earliest
\* member is on the unique sink and every other member on the duplicates sink
\* (stated here for inputs without unmapped records and a carryover that is
\* no smaller than the chunk).
C3_OneUniquePerCluster ==
    (/\ pc = "done" /\ Sorted(input)
     /\ cfg.carryover >= cfg.chunksize
     /\ \A i \in InputIdx : ~HasSentinel(input[i])) =>
        \A i \in InputIdx :
            ~HasSentinel(input[i]) =>
                LET C == Component(input, i)
                    e == MinOf(C)
                IN  /\ OnSink("out", input[e].readID)
                    /\ \A j \in C \ {e} :
                          /\ ~OnSink("out", input[j].readID)
                          /\ OnSink("dups", input[j].readID)

\* ------------------------------------------------------------------ C4
\* C4 as claimed: every record on the duplicates sink of the batch driver has
\* an earlier input record with the same categorical tuple within distance r
\* (stated here for sorted input only).
C4_EarlierNeighbour ==
    Sorted(input) =>
        \A k \in 1..Len(files["dups"]) :
            LET d == IngestIndex(files["dups"][k]) IN
            \E p \in 1..(d - 1) : Linked(input[p], input[d])
\* C4 as amended: every record on the duplicates sink has a neighbour (same
\* categorical tuple, distance <= r) somewhere in the input, and an earlier
\* input record of its connected component (same categorical tuple, joined to
\* it by a chain of neighbours).
C4_EarlierClusterMember ==
    \A k \in 1..Len(files["dups"]) :
        LET d == IngestIndex(files["dups"][k]) IN
        /\ \E q \in InputIdx \ {d} : Linked(input[q], input[d])
        /\ \E p \in 1..(d - 1) :
              p \in Component(input, d) /\ SameKey(input[p], input[d])
\* a duplicate of a sorted input whose only neighbour comes later in the input
C4_Witness ==
    Sorted(input) /\ \E k \in 1..Len(files["dups"]) :
        LET d == IngestIndex(files["dups"][k]) IN
        /\ ~\E p \in 1..(d - 1) : Linked(input[p], input[d])
        /\ \E q \in (d + 1)..Len(input) : Linked(input[q], input[d])


\* ------------------------------------------------------------------ C5
\* the records the batch backend marks duplicate when the whole input is one
\* chunk, and those the online driver wrote as duplicates
BatchDups ==
    LET marked == _dedup_chunk(input, cfg.max_mismatch, cfg.method, FALSE, <<>>, "scipy", "!")
    IN  { marked[k].cols.readID : k \in { k \in 1..Len(marked) : marked[k].duplicate } }
OnlineDups == { files["dups"][k].cols.readID : k \in 1..Len(files["dups"]) }
\* C5 as claimed: on sorted input the batch backend (one chunk) and the online
\* backend mark exactly the same records duplicate.
C5_BackendsAgree ==
    (pc = "done" /\ Sorted(input)) => OnlineDups = BatchDups
\* C5 as amended: on sorted input every record the online backend marks
\* duplicate is also marked duplicate by the batch backend (one chunk).
C5_OnlineWithinBatch ==
    (pc = "done" /\ Sorted(input)) => OnlineDups \subseteq BatchDups
\* a sorted input on which the online backend found a duplicate and the batch
\* backend one more
C5_Witness ==
    /\ pc = "done" /\ IsOnline /\ Sorted(input)
    /\ OnlineDups # {} /\ OnlineDups # BatchDups

\* ------------------------------------------------------------------ C6
\* C6: batch driver: when a mapped record x of the next chunk has a neighbour y
\* (same categorical tuple, distance <= r) among the carryover rows, x is
\* written to the duplicates sink (with keep_parent: under the read id of y or
\* of an earlier record of the same tuple) and y is not written again.
C6_CarryoverDuplicate ==
    [][ (IsBatch /\ input' # input) =>
          \A c \in 1..Len(df_prev_nodups) :
            \A k \in (Len(input) + 1)..Len(input') :
              LET y == df_prev_nodups[c]
                  x == input'[k]
                  new == Appended("dups")
              IN  Linked(y, x) =>
                    /\ \E n \in 1..Len(new) :
                          /\ new[n].cols.readID = x.readID
                          /\ cfg.keep_parent_id =>
                               \E p \in 1..IdxOf(y.readID) :
                                  /\ new[n].extra = <<input[p].readID>>
                                  /\ SameKey(input[p], y)
                    /\ \A h \in Handles : y.readID \notin AppendedIds(h)
      ]_vars

\* ------------------------------------------------------------------ C7
\* C7: batch driver, any configured sentinel: a record with a chromosome equal
\* to the sentinel is only ever written to the unmapped sink, and with all
\* its fields as read (its pair_type is not rewritten to DD).
C7_UnmappedVerbatim ==
    \A h \in Handles :
        \A k \in 1..Len(files[h]) :
            HasSentinel(files[h][k].cols) =>
                /\ h = "unmapped"
                /\ files[h][k].cols = input[IngestIndex(files[h][k])]

\* ------------------------------------------------------------------ C8
\* C8: three distinct sinks: on each sink the records appear in the order of
\* the input (non-decreasing ingest index); stated here for sorted input.
C8_SinkOrder ==
    Sorted(input) => \A h \in Handles :
        \A k, l \in 1..Len(files[h]) :
            k < l => IngestIndex(files[h][k]) <= IngestIndex(files[h][l])

\* ------------------------------------------------------------------ C9
\* C9: when the duplicates and/or the unmapped sink is the handle of the
\* unique sink, the records on that handle appear in input order (stated here
\* for sorted input).
SharesUnique == cfg.outstream_dups = "out" \/ cfg.outstream_unmapped = "out"
C9_SharedSinkOrder ==
    (SharesUnique /\ Sorted(input)) =>
        \A k, l \in 1..Len(files["out"]) :
            k < l => IngestIndex(files["out"][k]) < IngestIndex(files["out"][l])

RecordsOf(lines) == [k \in 1..Len(lines) |-> lines[k].cols]
NoFiles == [h \in Handles |-> <<>>]

\* C11: batch driver, sorted input without unmapped records, a carryover of at
\* least a chunk: when the driver
\* has returned, a second run of the same driver (same method, same
\* max_mismatch, same chunking) on the records of the unique sink writes those
\* records, in the same order, to its unique sink and nothing to its
\* duplicates sink.
C11_BatchIdempotent ==
    (pc = "done" /\ IsBatch /\ Sorted(input) /\ cfg.carryover >= cfg.chunksize
        /\ \A i \in InputIdx : ~HasSentinel(input[i]))
    => /\ streaming_dedup(NoFiles, RecordsOf(files["out"]), <<>>, 0)["out"] = files["out"]
       /\ streaming_dedup(NoFiles, RecordsOf(files["out"]), <<>>, 0)["dups"] = <<>>

\* ------------------------------------------------------------------ C12
\* the calls made on the statistics sink for the record with the read id
CallsFor(id) == { k \in 1..Len(stat) : stat[k].readID = id }
ClassifiedDuplicate(id) == \E k \in Verdicts(id) : dd.log[k][2]

\* C12: online driver with a statistics sink: when the driver has returned,
\* add_pair was called exactly once for every input record, with the
\* record's chromosomes, positions and strands, and with the type DD if the
\* detector classified the record duplicate and the record's own pair_type
\* if not (unmapped records included), for either value of mark_dups and
\* with or without a duplicates or an unmapped sink.
C12_AddPairOncePerRecord ==
    (pc = "done" /\ IsOnline /\ cfg.out_stat) =>
        \A i \in InputIdx :
            /\ Cardinality(CallsFor(input[i].readID)) = 1
            /\ \A k \in CallsFor(input[i].readID) :
                  stat[k].args =
                    << input[i].chrom1, input[i].pos1, input[i].strand1,
                       input[i].chrom2, input[i].pos2, input[i].strand2,
                       IF ClassifiedDuplicate(input[i].readID)
                       THEN "DD" ELSE input[i].pair_type >>
\* a run without a duplicates sink and without mark_dups that reported a
\* duplicate, a mapped record of another pair type and an unmapped record
C12_Witness ==
    /\ pc = "done" /\ IsOnline /\ cfg.out_stat
    /\ cfg.outstream_dups = "none" /\ ~cfg.mark_dups
    /\ \E i, j, k \in InputIdx :
         /\ ClassifiedDuplicate(input[i].readID)
         /\ ~HasSentinel(input[j]) /\ ~ClassifiedDuplicate(input[j].readID)
         /\ input[j].pair_type = "UR"
         /\ HasSentinel(input[k])
    /\ Len(stat) = Len(input)

\* ------------------------------------------------------------------ C13
\* C13: online driver with a statistics sink, sorted input, no negative
\* position: when the driver has returned, the add_pair calls were made in input order: a call for a record that was
\* read earlier precedes every call for a record that was read later, also
\* when one of the two is unmapped and the other mapped.
C13_AddPairInInputOrder ==
    (pc = "done" /\ IsOnline /\ cfg.out_stat /\ Sorted(input)
        /\ \A i \in InputIdx : input[i].pos1 >= 0 /\ input[i].pos2 >= 0) =>
        \A k, l \in 1..Len(stat) :
            k < l => IdxOf(stat[k].readID) < IdxOf(stat[l].readID)

\* ------------------------------------------------------------------ C14
\* C14: online driver with keep_parent_id: every line on the duplicates sink
\* carries one extra column, the read id of a record that was read before it
\* and that lies within the tolerance of it (same chromosomes and strands,
\* distance at most max_mismatch), whether the line was classified in the
\* first push or in a later one; and the driver does not fail.
C14_OnlineParentColumn ==
    (IsOnline /\ cfg.keep_parent_id) =>
        /\ pc # "error"
        /\ \A k \in 1..Len(files["dups"]) :
              /\ Len(files["dups"][k].extra) = 1
              /\ \E j \in InputIdx :
                    /\ j < IngestIndex(files["dups"][k])
                    /\ input[j].readID = files["dups"][k].extra[1]
                    /\ Linked(input[j], input[IngestIndex(files["dups"][k])])

\* ------------------------------------------------------------------ C15
\* C15: batch driver with a method other than max and sum: the driver never
\* returns normally, and nothing is ever written to a sink or passed to the
\* statistics sink, whatever the input, the empty one included.
C15_UnknownMethodFails ==
    (IsBatch /\ cfg.method \notin {"max", "sum"}) =>
        /\ pc # "done"
        /\ \A h \in Handles : files[h] = <<>>
        /\ stat = <<>>
\* the driver has failed on a stream without records
C15_Witness ==
    /\ IsBatch /\ cfg.method \notin {"max", "sum"}
    /\ pc = "error" /\ input = <<>>

\* ------------------------------------------------------------------ C16
\* C16: online driver: a record with a negative pos1 or pos2 is never written
\* to a sink (the driver is to fail on it instead).
C16_NegativePositionRejected ==
    IsOnline =>
        \A i \in InputIdx :
            (input[i].pos1 < 0 \/ input[i].pos2 < 0) => TimesWritten(input[i].readID) = 0

\* ------------------------------------------------------------------ C17
\* the number of columns a line must have: chrom1 ... strand2 are columns 2
\* to 7 of a line, pair_type, read for the statistics, is column 8
ColumnsRead == IF cfg.out_stat THEN 8 ELSE 7

\* C17: online driver: the step that reads a non-empty line with fewer
\* columns than the driver reads ends in an error without writing a line to
\* any sink and without a statistics call, and after an error no line is
\* written and no statistics call is made.
C17_ShortLineFails ==
    [][ /\ (in_stream.bad = 0 /\ in_stream'.bad # 0 /\ in_stream'.bad < ColumnsRead)
            => (pc' = "error" /\ files' = files /\ stat' = stat)
        /\ pc = "error" => (files' = files /\ stat' = stat) ]_vars
\* the driver has failed on a short line while lines were waiting in its
\* buffer, after it had written an unmapped line
C17_Witness ==
    /\ IsOnline /\ pc = "error"
    /\ in_stream.bad # 0 /\ in_stream.bad < ColumnsRead
    /\ Len(line_buffer) > 0 /\ Len(files["unmapped"]) > 0

\* ------------------------------------------------------------------ C18
\* the handles dedup_py opened itself: the sink variables that hold a handle
\* other than the standard output
Sinks == {cfg.outstream, cfg.outstream_dups, cfg.outstream_unmapped, cfg.out_stats_stream}
IsStdout(h) == h = "out" /\ cfg.output = ""
Opened == { h \in Sinks : h # "none" /\ ~IsStdout(h) }
TimesClosed(h) == Cardinality({ k \in 1..Len(closed) : closed[k] = h })

\* C18: when dedup_py has returned, close() was called exactly once on every
\* handle it opened, whichever sinks share a handle, and on nothing else: in
\* particular not on the standard output.
C18_EachSinkClosedOnce ==
    pc = "returned" =>
        /\ \A h \in Opened : TimesClosed(h) = 1
        /\ \A k \in 1..Len(closed) : closed[k] \in Opened
\* dedup_py has returned from a run on the standard output in which the
\* unmapped sink shared the handle of a duplicates file
C18_Witness ==
    /\ pc = "returned" /\ cfg.output = ""
    /\ cfg.outstream_dups = "dups" /\ cfg.outstream_unmapped = "dups"
    /\ Len(files["dups"]) > 1 /\ closed # <<>>

\* ------------------------------------------------------------------ C19
\* C19: either driver, all three sinks present: when a run has ended on a
\* cancellation signal, every record that had been read is written to a sink
\* (the window and the line buffer of the online driver were flushed).
C19_CancelFlushes ==
    pc = "cancelled" => \A i \in InputIdx : TimesWritten(input[i].readID) >= 1

\* ------------------------------------------------------------------ C20
\* C20: online driver: the step that reads an empty line writes nothing,
\* makes no statistics call and does not end the run; and when the driver
\* returns, the sinks and the statistics calls are those of a run on the
\* lines read without the empty ones.
C20_EmptyLineSkipped ==
    [][ /\ Len(in_stream'.skipped) > Len(in_stream.skipped)
            => (pc' = "run" /\ files' = files /\ stat' = stat)
        /\ (IsOnline /\ pc' = "done")
            => /\ files' = streaming_dedup_cython(OnlineStart, input', 1).files
               /\ stat' = streaming_dedup_cython(OnlineStart, input', 1).stat ]_vars
\* the driver has returned from an input with an empty line between two
\* records, the later of which it wrote as a duplicate
C20_Witness ==
    /\ IsOnline /\ pc = "done" /\ Len(files["dups"]) > 0
    /\ \E k \in 1..Len(in_stream.skipped) :
          /\ in_stream.skipped[k] > 0
          /\ \E j \in 1..Len(files["dups"]) :
                IngestIndex(files["dups"][j]) > in_stream.skipped[k]

\* ------------------------------------------------------------------ C21
\* the row of a returned frame that carries read id `id` is marked duplicate
MarkedIn(frame, id) ==
    \E k \in 1..Len(frame) : frame[k].cols.readID = id /\ frame[k].duplicate

\* C21: one call of _dedup_chunk / dedup_chunk without extra column pairs: a
\* record is marked duplicate if and only if it is mapped and is not the
\* earliest member of its connected component in the graph that joins mapped
\* records with equal chrom1, chrom2, strand1, strand2 and distance <= r; so
\* a component of one record yields no duplicate and an unmapped record is
\* never marked.
C21_MarkedIffNotFirstOfComponent ==
    call.made =>
        \A i \in 1..Len(call.df) :
            /\ MarkedIn(call.lib, call.df[i].readID)
                 <=> (~HasSentinel(call.df[i]) /\ i # MinOf(Component(call.df, i)))
            /\ MarkedIn(call.py, call.df[i].readID)
                 <=> (~HasSentinel(call.df[i]) /\ i # MinOf(Component(call.df, i)))
\* a call marked a record that is not a neighbour of the first record of its
\* component (it is joined to it through a third record)
C21_Witness ==
    /\ call.made
    /\ \E i \in 1..Len(call.df) :
          /\ MarkedIn(call.lib, call.df[i].readID)
          /\ MarkedIn(call.py, call.df[i].readID)
          /\ ~Linked(call.df[i], call.df[MinOf(Component(call.df, i))])

\* ------------------------------------------------------------------ C22
\* the read ids of the rows of a returned frame, in row order
RowOrder(frame) == [k \in 1..Len(frame) |-> frame[k].cols.readID] @@ <<>>

\* C22: one call of _dedup_chunk / dedup_chunk returns the rows of its input
\* in their original row order: unmapped and mapped records interleaved as
\* they were in the frame given.
C22_RowsInOriginalOrder ==
    call.made =>
        /\ RowOrder(call.lib) = [k \in 1..Len(call.df) |-> call.df[k].readID] @@ <<>>
        /\ RowOrder(call.py) = [k \in 1..Len(call.df) |-> call.df[k].readID] @@ <<>>

\* ------------------------------------------------------------------ C23
\* C23: _dedup_by_chunk of pairtools_dedup.py: for every chunk the number of
\* leading rows cut off the marked frame is the number of carryover rows that
\* were prepended to the chunk, whatever the size of the previous chunk's
\* non-duplicate set; so every record of the chunk is yielded and written.
C23_CutEqualsCarryover ==
    [][ (IsBatch /\ pc = "run" /\ Len(input') > Len(input))
            => /\ old_i = Len(old_nodups)
               /\ \A k \in (Len(input) + 1)..Len(input') :
                     \E h \in Handles :
                        OccurrencesIn(files', h, input'[k].readID) >= 1 ]_vars

\* ------------------------------------------------------------------ C24
\* the mapped rows of the frame of the call, under their labels
CallMapped ==
    LET IsMapped(x) == ~HasSentinel(x.cols)
    IN  SelectSeq([k \in 1..Len(call.df) |-> [index |-> k - 1, cols |-> call.df[k]]],
                  IsMapped)

\* two records agree on each column of every extra pair (L with L, R with R)
SameExtra(a, b) ==
    \A k \in 1..Len(cfg.extra_col_pairs) :
        /\ a[cfg.extra_col_pairs[k][1]] = b[cfg.extra_col_pairs[k][1]]
        /\ a[cfg.extra_col_pairs[k][2]] = b[cfg.extra_col_pairs[k][2]]

\* C24: batch backend with extra column pairs (L, R): a candidate pair (i, j)
\* within radius r is kept as an edge if and only if the two records agree on
\* chrom1, chrom2, strand1, strand2 and, for every extra pair, on column L and
\* on column R.
C24_ExtraColumnsSameSide ==
    call.made =>
        \A e \in query_pairs(CallMapped, cfg.max_mismatch, cfg.method, cfg.backend) :
            (e \in a_mat(CallMapped, cfg.max_mismatch, cfg.method, cfg.backend,
                         cfg.extra_col_pairs))
              <=> /\ SameKey(CallMapped[e[1]].cols, CallMapped[e[2]].cols)
                  /\ SameExtra(CallMapped[e[1]].cols, CallMapped[e[2]].cols)

\* ------------------------------------------------------------------ C25
\* the records the online driver or its detector holds, with their interned
\* keys: those buffered for the next push and those in the window
Held ==
    { [id |-> arrays[k].id, s1 |-> arrays[k].s1, s2 |-> arrays[k].s2] :
        k \in 1..Len(arrays) }
    \cup { [id |-> dd.window[k].id, s1 |-> dd.window[k].s1, s2 |-> dd.window[k].s2] :
             k \in 1..Len(dd.window) }

\* the records a and b agree on the strand column and on every extra column
\* of side 1 (n = 1) or of side 2 (n = 2)
SameSide(a, b, n) ==
    /\ (IF n = 1 THEN a.strand1 = b.strand1 ELSE a.strand2 = b.strand2)
    /\ \A k \in 1..Len(cfg.extra_col_pairs) :
          a[cfg.extra_col_pairs[k][n]] = b[cfg.extra_col_pairs[k][n]]

\* C25: online driver with extra column pairs: two records have the same
\* interned side-1 key if and only if they agree on strand1 and on every
\* extra column of side 1, and likewise on side 2.
C25_KeyEqualIffColumnsEqual ==
    IsOnline =>
        \A a, b \in Held :
            /\ (a.s1 = b.s1) <=> SameSide(input[IdxOf(a.id)], input[IdxOf(b.id)], 1)
            /\ (a.s2 = b.s2) <=> SameSide(input[IdxOf(a.id)], input[IdxOf(b.id)], 2)

\* ------------------------------------------------------------------ C26
\* the read ids of the mapped records read so far, in input order
MappedIds ==
    LET IsMapped(rec) == ~HasSentinel(rec)
        m == SelectSeq(input, IsMapped)
    IN  [k \in 1..Len(m) |-> m[k].readID] @@ <<>>

\* C26: online driver: the classifications come back in the order of the
\* mapped records read, each line is written once, to the sink of the
\* classification computed for that record; line_buffer and cols_buffer have
\* the same length, the number of mapped records read that have no
\* classification yet, and hold exactly those records, in input order.
C26_ResultsAlignedWithBuffer ==
    IsOnline =>
        /\ Len(line_buffer) = Len(cols_buffer)
        /\ Len(line_buffer) = Len(MappedIds) - Len(dd.log)
        /\ \A j \in 1..Len(line_buffer) :
              /\ line_buffer[j].readID = MappedIds[Len(dd.log) + j]
              /\ cols_buffer[j].readID = MappedIds[Len(dd.log) + j]
        /\ \A k \in 1..Len(dd.log) :
              /\ dd.log[k][1] = MappedIds[k]
              /\ TimesWritten(dd.log[k][1]) = 1
              /\ OnSink(IF dd.log[k][2] THEN "dups" ELSE "out", dd.log[k][1])
\* a push in the middle of the input returned the classification of some of
\* the buffered records and left others in the buffer, behind an unmapped
\* record that was written at once
C26_Witness ==
    /\ IsOnline /\ pc = "run"
    /\ Len(dd.log) > 0 /\ Len(line_buffer) > 0
    /\ Len(files["unmapped"]) > 0
    /\ IngestIndex(files["unmapped"][1]) < IngestIndex([cols |-> line_buffer[1]])

\* ------------------------------------------------------------------ C27
\* C27: online driver on a finite input of well-formed lines: the driver
\* eventually reaches the end of the input, pushes what is buffered, calls
\* finish and returns with both buffers empty; the "lines left in the buffer"
\* error is never raised.
C27_OnlineDriverReturns ==
    /\ [](pc # "error")
    /\ <>(pc = "done" /\ line_buffer = <<>> /\ cols_buffer = <<>> /\ arrays = <<>>
          /\ dd.window = <<>>)
\* the driver has returned from an input of more mapped records than one push
\* takes, every one of them classified, the last ones by finish
C27_Witness ==
    /\ IsOnline /\ pc = "done" /\ line_buffer = <<>>
    /\ Len(MappedIds) > MAX_LEN /\ Len(dd.log) = Len(MappedIds)
    /\ Len(files["dups"]) > 0

WindowRec(k) == input[IdxOf(dd.window[k].id)]

\* C29: online backend on input sorted by (chrom1, chrom2, pos1, pos2): after
\* the push of a record x (the last record of the window) every record of the
\* window has the chrom1 and chrom2 of x and pos1 >= x.pos1 - r.
C29_WindowHoldsCurrentPairOnly ==
    (IsOnline /\ Sorted(input)) =>
        \A k \in 1..Len(dd.window) :
            /\ WindowRec(k).chrom1 = WindowRec(Len(dd.window)).chrom1
            /\ WindowRec(k).chrom2 = WindowRec(Len(dd.window)).chrom2
            /\ WindowRec(k).pos1 >= WindowRec(Len(dd.window)).pos1 - cfg.max_mismatch

\* ------------------------------------------------------------------ C30
\* the read ids of the records that _dedup_chunk marks duplicate in the frame
\* of the call with radius r and the given method
MarkedWith(r, method) ==
    LET res == _dedup_chunk(call.df, r, method, cfg.keep_parent_id,
                            cfg.extra_col_pairs, cfg.backend, cfg.unmapped_chrom)
    IN  { res[k].cols.readID : k \in { j \in 1..Len(res) : res[j].duplicate } }

\* C30: one call of _dedup_chunk on a fixed frame: the set of records marked
\* duplicate grows with the radius (r <= r2 under the same method), and every
\* record marked under the sum metric is marked under the max metric at the
\* same radius.
C30_MarkedMonotoneInRadius ==
    call.made =>
        /\ MarkedWith(cfg.max_mismatch, cfg.method)
             = { call.lib[k].cols.readID : k \in { j \in 1..Len(call.lib) : call.lib[j].duplicate } }
        /\ \A r \in 0..(MaxR + 1) : \A r2 \in r..(MaxR + 1) :
              MarkedWith(r, cfg.method) \subseteq MarkedWith(r2, cfg.method)
        /\ \A r \in 0..(MaxR + 1) : MarkedWith(r, "sum") \subseteq MarkedWith(r, "max")
\* a call marked a record with radius r = max_mismatch that it does not mark
\* with radius 0, and one that max marks and sum does not
C30_Witness ==
    /\ call.made /\ cfg.max_mismatch > 0
    /\ MarkedWith(0, cfg.method) # MarkedWith(cfg.max_mismatch, cfg.method)
    /\ MarkedWith(cfg.max_mismatch, "sum") # MarkedWith(cfg.max_mismatch, "max")
    /\ MarkedWith(0, cfg.method) # {}

\* ------------------------------------------------------------------ C31
\* a key without the blanks around it
Stripped(key) ==
    CASE key \in {" a", "a "} -> "a" [] key = " +" -> "+" [] OTHER -> key

\* the call (position in fetched) on which a stripped key was first seen
FirstSeen(k) ==
    MinOf({ n \in 1..Len(fetched) : Stripped(fetched[n].key) = k })

\* the table maps the distinct stripped keys seen so far one-to-one onto
\* 0..n-1 in order of first appearance (the id of a key is its position in
\* the table - 1), and every id returned so far is still the id of its key
TableOfKeysSeen ==
    /\ { chromDict[i] : i \in 1..Len(chromDict) }
         = { Stripped(fetched[n].key) : n \in 1..Len(fetched) }
    /\ \A i, j \in 1..Len(chromDict) :
          /\ (i # j) => chromDict[i] # chromDict[j]
          /\ (i < j) => FirstSeen(chromDict[i]) < FirstSeen(chromDict[j])
    /\ \A n \in 1..Len(fetched) :
          /\ fetched[n].id \in 0..(Len(chromDict) - 1)
          /\ chromDict[fetched[n].id + 1] = Stripped(fetched[n].key)

\* C31: after any sequence of fetchadd calls on one table, the table maps the
\* distinct stripped keys seen so far one-to-one onto 0..n-1 in order of
\* first appearance; a call with a known key returns its existing id and
\* leaves the table unchanged, a call with a new key returns the previous
\* size of the table, and no id ever changes or is removed.
C31_FetchaddInterns ==
    [][ Len(fetched') > Len(fetched) =>
          /\ TableOfKeysSeen'
          /\ SubSeq(chromDict', 1, Len(chromDict)) = chromDict
          /\ IF \E i \in 1..Len(chromDict) :
                   chromDict[i] = Stripped(fetched'[Len(fetched')].key)
             THEN /\ chromDict' = chromDict
                  /\ chromDict[fetched'[Len(fetched')].id + 1]
                       = Stripped(fetched'[Len(fetched')].key)
             ELSE /\ fetched'[Len(fetched')].id = Len(chromDict)
                  /\ Len(chromDict') = Len(chromDict) + 1 ]_vars
\* a key was given again with a blank around it and got the id it had, and a
\* new key given after it got the next id
C31_Witness ==
    /\ Len(chromDict) >= 2
    /\ \E m, n, q \in 1..Len(fetched) :
          /\ m < n /\ n < q
          /\ fetched[m].key # fetched[n].key
          /\ fetched[m].id = fetched[n].id
          /\ fetched[q].id = Len(chromDict) - 1
          /\ FirstSeen(Stripped(fetched[q].key)) = q

====
